---------------------------- MODULE Spec2Model ----------------------------
(***************************************************************************)
(* Model of src/MjpegReceiver/mjpeg.h: the RTP header codec (RtpHeader),   *)
(* the RFC 2435 JPEG payload header parser (JpegRtpHeader), the            *)
(* quantization table synthesis (Jfif::create_default_qtables), the        *)
(* Huffman code builder (Huffman::ff_mjpeg_build_huffman_codes) and the    *)
(* JFIF header builder (Jfif::jpeg_create_header).                         *)
(*                                                                         *)
(* A uint8_t is a number in 0..255, a uint16_t a number in 0..65535.  A    *)
(* uint32_t is a record [hi, lo] of its two 16-bit halves, because the     *)
(* model checker's integers are 32-bit signed and cannot hold 2^32 - 1.    *)
(* A std::vector<uint8_t> is a sequence of bytes; element i of the vector  *)
(* (0-based) is element i + 1 of the sequence.                             *)
(***************************************************************************)
EXTENDS Integers, Sequences, FiniteSets, TLC

VARIABLES
    rtp,      \* the sender's RtpHeader object
    rcv,      \* the receiver's RtpHeader object, which Deserialise fills
    sent,     \* the header serialised into buf from an empty vector, or NoHeader
    jpg,      \* the JpegRtpHeader object
    buf,      \* the std::vector<uint8_t> passed to the last call
    pos,      \* startPosn of the last Deserialise call
    out,      \* how the last call ended: [kind, what]
    op,       \* the last operation
    reads,    \* 0-based positions of buf read by the last Deserialise
    quality,  \* argument q of the last create_default_qtables call
    scale,    \* the scale factor S that call computed
    qtables,  \* the 128 bytes create_default_qtables wrote: entry i is qtables[i + 1]
    huff,     \* one ff_mjpeg_build_huffman_codes call: its tables and its two arrays
    jfif      \* one jpeg_create_header call: its arguments, position and output

vars == <<rtp, rcv, sent, jpg, buf, pos, out, op, reads, quality, scale, qtables,
          huff, jfif>>

---------------------------------------------------------------------------
(* Bounds of the model.                                                    *)

\* size_t arithmetic is modulo 2^64 (2^32 on a 32-bit build).  Every length
\* and offset of the model is below 2^16, so a difference that wraps is far
\* above every constant it is compared with, as it is modulo 2^64.
SizeModulus == 1073741824
\* Version values the caller stores in the uint8_t field: 0..MaxVersion.
MaxVersion == 4
\* startPosn ranges up to MaxOver positions beyond the end of the buffer.
MaxOver == 2
\* Bytes already in the vector handed to Serialise: 0..MaxPrefix.
MaxPrefix == 1
\* Table bytes a quantization header announces: 0..MaxQLen.
MaxQLen == 2
\* Deserialise is called on one JpegRtpHeader only while its QTable cannot
\* grow beyond MaxQTable bytes.
MaxQTable == 4

---------------------------------------------------------------------------
(* The values of huff and jfif while no Huffman build and no header build  *)
(* is under way.                                                           *)

HuffIdle ==
    [name |-> "none", bits_table |-> <<>>, val_table |-> <<>>,
     huff_size |-> <<>>, huff_code |-> <<>>, called |-> FALSE]

JfifIdle ==
    [pc |-> "idle", type |-> 0, w |-> 0, h |-> 0, qtable |-> <<>>,
     nb_qtable |-> 0, dri |-> 0, buffer |-> <<>>, marks |-> <<>>,
     dht_size |-> 0, ret |-> 0]

---------------------------------------------------------------------------
(* Bit operations on naturals.                                             *)

RECURSIVE BitAnd(_, _)
BitAnd(a, b) ==
    IF a = 0 \/ b = 0 THEN 0
    ELSE (IF a % 2 = 1 /\ b % 2 = 1 THEN 1 ELSE 0) + 2 * BitAnd(a \div 2, b \div 2)

RECURSIVE BitOr(_, _)
BitOr(a, b) ==
    IF a = 0 THEN b
    ELSE IF b = 0 THEN a
    ELSE (IF a % 2 = 1 \/ b % 2 = 1 THEN 1 ELSE 0) + 2 * BitOr(a \div 2, b \div 2)

Shl(a, n) == a * 2^n
Shr(a, n) == a \div 2^n

\* Conversion of an int to uint8_t (push_back of an int expression).
U8(x) == x % 256

\* buffer.size() - startPosn, computed in size_t.
SizeSub(a, b) == (a - b) % SizeModulus

---------------------------------------------------------------------------
(* endiautils.h: big-endian readers and writers.                           *)

write_16(v, b) == b \o <<Shr(v, 8) % 256, v % 256>>
write_32(v, b) == write_16(v.lo, write_16(v.hi, b))

\* Memory as Deserialise sees it: the vector's bytes, then whatever lies
\* after its storage (tail).  mem is indexed from 0.
Mem(b, tail, i) == IF i < Len(b) THEN b[i + 1] ELSE tail[i - Len(b) + 1]

read_16(b, tail, p) == Mem(b, tail, p) * 256 + Mem(b, tail, p + 1)
read_24(b, tail, p) ==
    Mem(b, tail, p) * 65536 + Mem(b, tail, p + 1) * 256 + Mem(b, tail, p + 2)
read_32(b, tail, p) == [hi |-> read_16(b, tail, p), lo |-> read_16(b, tail, p + 2)]

---------------------------------------------------------------------------
(* Outcomes of a call.  kind names the throw statement that ended the call *)
(* ("ok": it returned; "crash": an out-of-bounds read faulted); what is    *)
(* the text the std::runtime_error carries, all a caller can inspect.      *)

MsgRtpMin == "The available buffer size was less than the minimum RTP header length."
MsgJpegMin == "The available buffer size was less than the minimum JPEG RTP header length."
MsgTypeSpecifier == "This implementation does not support a non default RTP JPEG type specifier."
MsgRestart == "This implementation does not support JPEG restarts."
MsgQuantLength == "The available buffer size is shorter than the JPEG Quantization header length."

Returned == [kind |-> "ok", what |-> ""]
Crashed == [kind |-> "crash", what |-> ""]

\* The six throw statements of the two Deserialise methods.
ThrowRtpTruncated == [kind |-> "TruncatedBuffer", what |-> MsgRtpMin]
ThrowJpegTruncated == [kind |-> "TruncatedBuffer", what |-> MsgJpegMin]
ThrowTypeSpecifier == [kind |-> "UnsupportedTypeSpecifier", what |-> MsgTypeSpecifier]
ThrowRestart == [kind |-> "UnsupportedRestartMarkers", what |-> MsgRestart]
ThrowQuantHeader == [kind |-> "TruncatedQuantizationHeader", what |-> MsgJpegMin]
ThrowQuantTable == [kind |-> "TruncatedQuantizationTable", what |-> MsgQuantLength]

ThrowSites ==
    {ThrowRtpTruncated, ThrowJpegTruncated, ThrowTypeSpecifier, ThrowRestart,
     ThrowQuantHeader, ThrowQuantTable}

Raised(o) == o \in ThrowSites

\* What lies after the vector's storage when a read runs past its end: an
\* indeterminate run of bytes, here TailLen equal bytes of either value.
TailLen == 16
TailBytes == {0, 165}
Tails == {[i \in 1..TailLen |-> t] : t \in TailBytes}

---------------------------------------------------------------------------
(* class RtpHeader                                                         *)

RTP_VERSION == 2
RTP_MINIMUM_HEADER_LENGTH == 12

NoHeader == [none |-> TRUE]

\* The member initialisers of a newly constructed RtpHeader.
RtpHeaderNew ==
    [Version |-> RTP_VERSION, PaddingFlag |-> 0, HeaderExtensionFlag |-> 0,
     CSRCCount |-> 0, MarkerBit |-> 0, PayloadType |-> 0, SeqNum |-> 0,
     Timestamp |-> [hi |-> 0, lo |-> 0], SyncSource |-> [hi |-> 0, lo |-> 0]]

\* A header with every field at the top of its declared width.
RtpHeaderFull ==
    [Version |-> 3, PaddingFlag |-> 1, HeaderExtensionFlag |-> 1,
     CSRCCount |-> 15, MarkerBit |-> 1, PayloadType |-> 127, SeqNum |-> 65535,
     Timestamp |-> [hi |-> 65535, lo |-> 65535],
     SyncSource |-> [hi |-> 65535, lo |-> 65535]]

\* Field values the caller may store in a header object: the two headers
\* above with one field at a time set to each of its sample values.
RtpHeaders ==
    UNION {
        {[b EXCEPT !.Version = v] : v \in 0..MaxVersion}
        \cup {[b EXCEPT !.PaddingFlag = v] : v \in {0, 1}}
        \cup {[b EXCEPT !.HeaderExtensionFlag = v] : v \in {0, 1}}
        \cup {[b EXCEPT !.CSRCCount = v] : v \in {0, 5, 15}}
        \cup {[b EXCEPT !.MarkerBit = v] : v \in {0, 1}}
        \cup {[b EXCEPT !.PayloadType = v] : v \in {0, 26, 127}}
        \cup {[b EXCEPT !.SeqNum = v] : v \in {0, 513, 65535}}
        \cup {[b EXCEPT !.Timestamp = v] : v \in {[hi |-> 258, lo |-> 772]}}
        \cup {[b EXCEPT !.SyncSource = v] : v \in {[hi |-> 43981, lo |-> 4660]}}
        : b \in {RtpHeaderNew, RtpHeaderFull}}

\* Serialise with the bug of writing the constant RTP_VERSION.
RtpSerialiseForcedVersion(h, b) ==
    LET b0 == BitOr(BitOr(BitAnd(Shl(RTP_VERSION, 6), 192), BitAnd(Shl(h.PaddingFlag, 5), 32)),
                    BitOr(BitAnd(Shl(h.HeaderExtensionFlag, 4), 16), BitAnd(h.CSRCCount, 15)))
        b1 == BitOr(BitAnd(Shl(h.MarkerBit, 7), 128), BitAnd(h.PayloadType, 127))
    IN write_32(h.SyncSource, write_32(h.Timestamp,
           write_16(h.SeqNum, b \o <<U8(b0), U8(b1)>>)))

\* RtpHeader::Serialise(buf): appends the 12 header bytes to b.
RtpSerialise(h, b) ==
    LET b0 == BitOr(BitOr(BitAnd(Shl(h.Version, 6), 192), BitAnd(Shl(h.PaddingFlag, 5), 32)),
                    BitOr(BitAnd(Shl(h.HeaderExtensionFlag, 4), 16), BitAnd(h.CSRCCount, 15)))
        b1 == BitOr(BitAnd(Shl(h.MarkerBit, 7), 128), BitAnd(h.PayloadType, 127))
    IN write_32(h.SyncSource, write_32(h.Timestamp,
           write_16(h.SeqNum, b \o <<U8(b0), U8(b1)>>)))

\* RtpParse with the bug of taking all 8 bits of byte 1 as the payload type.
RtpParseUnmaskedPayloadType(b, tail, p) ==
    [Version |-> BitAnd(Shr(Mem(b, tail, p), 6), 3),
     PaddingFlag |-> BitAnd(Shr(Mem(b, tail, p), 5), 1),
     HeaderExtensionFlag |-> BitAnd(Shr(Mem(b, tail, p), 4), 1),
     CSRCCount |-> BitAnd(Mem(b, tail, p), 15),
     MarkerBit |-> BitAnd(Shr(Mem(b, tail, p + 1), 7), 1),
     PayloadType |-> Mem(b, tail, p + 1),
     SeqNum |-> read_16(b, tail, p + 2),
     Timestamp |-> read_32(b, tail, p + 4),
     SyncSource |-> read_32(b, tail, p + 8)]

\* The field assignments of RtpHeader::Deserialise, reading memory at p.
RtpParse(b, tail, p) ==
    [Version |-> BitAnd(Shr(Mem(b, tail, p), 6), 3),
     PaddingFlag |-> BitAnd(Shr(Mem(b, tail, p), 5), 1),
     HeaderExtensionFlag |-> BitAnd(Shr(Mem(b, tail, p), 4), 1),
     CSRCCount |-> BitAnd(Mem(b, tail, p), 15),
     MarkerBit |-> BitAnd(Shr(Mem(b, tail, p + 1), 7), 1),
     PayloadType |-> BitAnd(Mem(b, tail, p + 1), 127),
     SeqNum |-> read_16(b, tail, p + 2),
     Timestamp |-> read_32(b, tail, p + 4),
     SyncSource |-> read_32(b, tail, p + 8)]

\* RtpHeader::Deserialise(buffer, startPosn) on object h: the set of results
\* [hdr, out, reads] the call can have.  The size test is made in size_t;
\* when it passes with startPosn + 12 beyond the vector's end the reads are
\* out of bounds (undefined behaviour): the call faults, or it returns with
\* whatever bytes follow the storage.
RtpDeserialise(h, b, p) ==
    IF SizeSub(Len(b), p) < RTP_MINIMUM_HEADER_LENGTH
    THEN {[hdr |-> h, out |-> ThrowRtpTruncated, reads |-> {}]}
    ELSE IF p + RTP_MINIMUM_HEADER_LENGTH <= Len(b)
    THEN {[hdr |-> RtpParse(b, <<>>, p), out |-> Returned,
           reads |-> p..(p + RTP_MINIMUM_HEADER_LENGTH - 1)]}
    ELSE {[hdr |-> h, out |-> Crashed, reads |-> {p}]}
         \cup {[hdr |-> RtpParse(b, tail, p), out |-> Returned,
                reads |-> p..(p + RTP_MINIMUM_HEADER_LENGTH - 1)] : tail \in Tails}

---------------------------------------------------------------------------
(* class JpegRtpHeader                                                     *)

JPEG_MIN_HEADER_LENGTH == 8
JPEG_DEFAULT_TYPE_SPECIFIER == 0
JPEG_TYPE_RESTART_MARKER_START == 64
JPEG_TYPE_RESTART_MARKER_END == 127
JPEG_QUANTIZATION_HEADER_LENGTH == 4
Q_TABLE_INBAND_MINIMUM == 128

\* A newly constructed JpegRtpHeader: the six base fields have no
\* initialiser and hold an indeterminate value u; the extension fields are
\* brace-initialised to 0 and the vector is empty.
JpegHeaderNew(u) ==
    [TypeSpecifier |-> u, Offset |-> u, Type |-> u, Q |-> u, Width |-> u, Height |-> u,
     Mbz |-> 0, Precision |-> 0, Length |-> 0, QTable |-> <<>>]

UninitBytes == {0, 205}

\* The six assignments made right after the size test.
JpegBaseFields(h, b, tail, p) ==
    [h EXCEPT !.TypeSpecifier = Mem(b, tail, p),
              !.Offset = read_24(b, tail, p + 1),
              !.Type = Mem(b, tail, p + 4),
              !.Q = Mem(b, tail, p + 5),
              !.Width = Mem(b, tail, p + 6),
              !.Height = Mem(b, tail, p + 7)]

\* The three assignments made once the 4 extension bytes are known to be there.
JpegExtFields(h, b, tail, p) ==
    [h EXCEPT !.Mbz = Mem(b, tail, p + 8),
              !.Precision = Mem(b, tail, p + 9),
              !.Length = read_16(b, tail, p + 10)]

\* std::copy(begin + p + 12, begin + p + 12 + n, back_inserter(QTable))
CopyTable(h, b, tail, p, n) ==
    [h EXCEPT !.QTable = @ \o [i \in 1..n |->
        Mem(b, tail, p + JPEG_MIN_HEADER_LENGTH + JPEG_QUANTIZATION_HEADER_LENGTH + i - 1)]]

\* The body of JpegRtpHeader::Deserialise after its first size test has
\* passed, on object h, reading memory b \o tail at p.
JpegParse(h, b, tail, p) ==
    LET avail == SizeSub(Len(b), p)
        h1 == JpegBaseFields(h, b, tail, p)
        h2 == JpegExtFields(h1, b, tail, p)
        base == p..(p + JPEG_MIN_HEADER_LENGTH - 1)
        ext == p..(p + JPEG_MIN_HEADER_LENGTH + JPEG_QUANTIZATION_HEADER_LENGTH - 1)
        tableEnd == p + JPEG_MIN_HEADER_LENGTH + JPEG_QUANTIZATION_HEADER_LENGTH + h2.Length
    IN  IF h1.TypeSpecifier # JPEG_DEFAULT_TYPE_SPECIFIER
        THEN [hdr |-> h1, out |-> ThrowTypeSpecifier,
              reads |-> base]
        ELSE IF h1.Type >= JPEG_TYPE_RESTART_MARKER_START
                /\ h1.Type <= JPEG_TYPE_RESTART_MARKER_END
        THEN [hdr |-> h1, out |-> ThrowRestart,
              reads |-> base]
        ELSE IF ~(h1.Offset = 0 /\ h1.Q >= Q_TABLE_INBAND_MINIMUM)
        THEN [hdr |-> h1, out |-> Returned, reads |-> base]
        ELSE IF SizeSub(avail, JPEG_MIN_HEADER_LENGTH) < JPEG_QUANTIZATION_HEADER_LENGTH
        THEN [hdr |-> h1, out |-> ThrowQuantHeader,
              reads |-> base]
        ELSE IF h2.Length = 0
        THEN [hdr |-> h2, out |-> Returned, reads |-> ext]
        ELSE IF SizeSub(SizeSub(avail, JPEG_MIN_HEADER_LENGTH),
                        JPEG_QUANTIZATION_HEADER_LENGTH) < h2.Length
        THEN [hdr |-> h2, out |-> ThrowQuantTable,
              reads |-> ext]
        ELSE IF tableEnd > Len(b) + Len(tail)
        THEN [hdr |-> h2, out |-> Crashed, reads |-> ext]
        ELSE [hdr |-> CopyTable(h2, b, tail, p, h2.Length), out |-> Returned,
              reads |-> p..(tableEnd - 1)]

\* JpegRtpHeader::Deserialise(buffer, startPosn) on object h: the set of
\* results [hdr, out, reads] the call can have.  As in RtpHeader, the size
\* test is made in size_t and passes for a startPosn beyond the vector's
\* end; every read is then out of bounds.
JpegDeserialise(h, b, p) ==
    IF SizeSub(Len(b), p) < JPEG_MIN_HEADER_LENGTH
    THEN {[hdr |-> h, out |-> ThrowJpegTruncated, reads |-> {}]}
    ELSE IF p + JPEG_MIN_HEADER_LENGTH <= Len(b)
    THEN {JpegParse(h, b, <<>>, p)}
    ELSE {[hdr |-> h, out |-> Crashed, reads |-> {p}]}
         \cup {JpegParse(h, b, tail, p) : tail \in Tails}

\* Datagrams the transport hands over: an 8 byte payload header, then 4
\* bytes laid out as a quantization header announcing n table bytes, the n
\* table bytes and one byte of scan data.
QTableData(n) == [i \in 1..n |-> 5 + 2 * i]

JpegPacket(ts, off, type, q, n) ==
    <<ts, Shr(off, 16) % 256, Shr(off, 8) % 256, off % 256, type, q, 80, 60>>
    \o <<0, n % 2, Shr(n, 8) % 256, n % 256>> \o QTableData(n) \o <<33>>

\* Packets that pass the base header validations, with and without an
\* extension, and one packet for each way of failing them.
JpegPackets ==
    {JpegPacket(0, off, 0, q, n) : off \in {0, 10}, q \in {127, 128}, n \in 0..MaxQLen}
    \cup {JpegPacket(1, 0, 64, 128, MaxQLen), JpegPacket(1, 0, 0, 128, MaxQLen),
          JpegPacket(0, 0, 64, 128, MaxQLen), JpegPacket(0, 0, 127, 128, MaxQLen),
          JpegPacket(0, 0, 63, 255, MaxQLen)}

---------------------------------------------------------------------------
(* The state machine.                                                      *)

InitRtp ==
    /\ rtp \in RtpHeaders
    /\ rcv = RtpHeaderNew
    /\ sent = NoHeader
    /\ jpg = JpegHeaderNew(0)
    /\ buf = <<>>
    /\ pos = 0
    /\ out = Returned
    /\ op = "new"
    /\ reads = {}
    /\ quality = 0
    /\ scale = 0
    /\ qtables = <<>>
    /\ huff = HuffIdle
    /\ jfif = JfifIdle

\* The caller takes a vector that already holds n bytes.  With every new
\* buffer the receiver constructs a new header object.
NewVector(n) ==
    /\ buf' = [i \in 1..n |-> 170]
    /\ sent' = NoHeader
    /\ pos' = 0
    /\ out' = Returned
    /\ op' = "NewVector"
    /\ reads' = {}
    /\ rcv' = RtpHeaderNew
    /\ UNCHANGED <<huff, jfif, rtp, jpg, quality, scale, qtables>>

\* rtp.Serialise(buf)
Serialise ==
    /\ Len(buf) <= MaxPrefix
    /\ buf' = RtpSerialise(rtp, buf)
    /\ sent' = IF buf = <<>> THEN rtp ELSE NoHeader
    /\ pos' = 0
    /\ out' = Returned
    /\ op' = "Serialise"
    /\ reads' = {}
    /\ rcv' = RtpHeaderNew
    /\ UNCHANGED <<huff, jfif, rtp, jpg, quality, scale, qtables>>

\* The transport delivers only the first n bytes of the datagram.
Truncate(n) ==
    /\ n < Len(buf)
    /\ buf' = SubSeq(buf, 1, n)
    /\ sent' = NoHeader
    /\ pos' = 0
    /\ out' = Returned
    /\ op' = "Truncate"
    /\ reads' = {}
    /\ rcv' = RtpHeaderNew
    /\ UNCHANGED <<huff, jfif, rtp, jpg, quality, scale, qtables>>

\* rcv.Deserialise(buf, p)
Deserialise(p) ==
    /\ \E r \in RtpDeserialise(rcv, buf, p) :
          /\ rcv' = r.hdr
          /\ out' = r.out
          /\ reads' = r.reads
    /\ pos' = p
    /\ op' = "Deserialise"
    /\ UNCHANGED <<huff, jfif, rtp, sent, jpg, buf, quality, scale, qtables>>

NextRtp ==
    \/ \E n \in 0..MaxPrefix : NewVector(n)
    \/ Serialise
    \/ \E n \in 0..RTP_MINIMUM_HEADER_LENGTH : Truncate(n)
    \/ \E p \in 0..(Len(buf) + MaxOver) : Deserialise(p)

SpecRtp == InitRtp /\ [][NextRtp]_vars

---------------------------------------------------------------------------
(* The receiver of JPEG payload headers.                                   *)

InitJpeg ==
    /\ rtp = RtpHeaderNew
    /\ rcv = RtpHeaderNew
    /\ sent = NoHeader
    /\ \E u \in UninitBytes : jpg = JpegHeaderNew(u)
    /\ buf = <<>>
    /\ pos = 0
    /\ out = Returned
    /\ op = "new"
    /\ reads = {}
    /\ quality = 0
    /\ scale = 0
    /\ qtables = <<>>
    /\ huff = HuffIdle
    /\ jfif = JfifIdle

\* The transport hands over datagram b.
JpegReceive(b) ==
    /\ buf' = b
    /\ pos' = 0
    /\ out' = Returned
    /\ op' = "JpegReceive"
    /\ reads' = {}
    /\ UNCHANGED <<huff, jfif, rtp, rcv, sent, jpg, quality, scale, qtables>>

\* The datagram arrives without its last byte.
JpegTruncate ==
    /\ buf # <<>>
    /\ buf' = SubSeq(buf, 1, Len(buf) - 1)
    /\ pos' = 0
    /\ out' = Returned
    /\ op' = "JpegTruncate"
    /\ reads' = {}
    /\ UNCHANGED <<huff, jfif, rtp, rcv, sent, jpg, quality, scale, qtables>>

\* The receiver constructs a new JpegRtpHeader.
JpegNew(u) ==
    /\ jpg' = JpegHeaderNew(u)
    /\ out' = Returned
    /\ op' = "JpegNew"
    /\ reads' = {}
    /\ UNCHANGED <<huff, jfif, rtp, rcv, sent, buf, pos, quality, scale, qtables>>

\* jpg.Deserialise(buf, p)
JpegDeserialiseCall(p) ==
    /\ Len(jpg.QTable) + MaxQLen <= MaxQTable
    /\ \E r \in JpegDeserialise(jpg, buf, p) :
          /\ jpg' = r.hdr
          /\ out' = r.out
          /\ reads' = r.reads
    /\ pos' = p
    /\ op' = "JpegDeserialise"
    /\ UNCHANGED <<huff, jfif, rtp, rcv, sent, buf, quality, scale, qtables>>

NextJpeg ==
    \/ \E b \in JpegPackets : JpegReceive(b)
    \/ JpegTruncate
    \/ \E u \in UninitBytes : JpegNew(u)
    \/ \E p \in {0, 1} \cup (Len(buf)..(Len(buf) + MaxOver)) : JpegDeserialiseCall(p)

SpecJpeg == InitJpeg /\ [][NextJpeg]_vars

---------------------------------------------------------------------------
(* Jfif::create_default_qtables                                            *)

\* The table of RFC 2435, Appendix A: luma, then chroma, in zig-zag order.
\* default_quantizers[i] of the C array is element i + 1 here.
default_quantizers ==
    <<16, 11, 12, 14, 12, 10, 16, 14,
      13, 14, 18, 17, 16, 19, 24, 40,
      26, 24, 22, 22, 24, 49, 35, 37,
      29, 40, 58, 51, 61, 60, 57, 51,
      56, 55, 64, 72, 92, 78, 64, 68,
      87, 69, 55, 56, 80, 109, 81, 87,
      95, 98, 103, 104, 103, 62, 77, 113,
      121, 112, 100, 120, 92, 101, 103, 99,
      17, 18, 18, 24, 21, 24, 47, 26,
      26, 47, 99, 66, 56, 66, 99, 99,
      99, 99, 99, 99, 99, 99, 99, 99,
      99, 99, 99, 99, 99, 99, 99, 99,
      99, 99, 99, 99, 99, 99, 99, 99,
      99, 99, 99, 99, 99, 99, 99, 99,
      99, 99, 99, 99, 99, 99, 99, 99,
      99, 99, 99, 99, 99, 99, 99, 99>>

av_clip(a, amin, amax) == IF a < amin THEN amin ELSE IF a > amax THEN amax ELSE a

\* create_default_qtables without the final av_clip of each entry.
create_default_qtables_unclipped(q) ==
    LET factor == av_clip(q, 1, 99)
        S == (IF q < 50 THEN 5000 \div factor ELSE 200 - factor * 2) % 65536
    IN  [S |-> S,
         qtables |-> [i \in 1..128 |-> U8((default_quantizers[i] * S + 50) \div 100)]]

\* create_default_qtables(qtables, q): the scale factor and the 128 entries.
create_default_qtables(q) ==
    LET factor == av_clip(q, 1, 99)
        S == (IF q < 50 THEN 5000 \div factor ELSE 200 - factor * 2) % 65536
    IN  [S |-> S,
         qtables |-> [i \in 1..128 |->
             U8(av_clip((default_quantizers[i] * S + 50) \div 100, 1, 255))]]

InitQuant ==
    /\ rtp = RtpHeaderNew
    /\ rcv = RtpHeaderNew
    /\ sent = NoHeader
    /\ jpg = JpegHeaderNew(0)
    /\ buf = <<>>
    /\ pos = 0
    /\ out = Returned
    /\ op = "new"
    /\ reads = {}
    /\ quality = 0
    /\ scale = 0
    /\ qtables = <<>>
    /\ huff = HuffIdle
    /\ jfif = JfifIdle

\* create_default_qtables(qtables, q)
CreateDefaultQtables(q) ==
    /\ quality' = q
    /\ scale' = create_default_qtables(q).S
    /\ qtables' = create_default_qtables(q).qtables
    /\ out' = Returned
    /\ op' = "create_default_qtables"
    /\ UNCHANGED <<huff, jfif, rtp, rcv, sent, jpg, buf, pos, reads>>

NextQuant == \E q \in 0..255 : CreateDefaultQtables(q)

SpecQuant == InitQuant /\ [][NextQuant]_vars

---------------------------------------------------------------------------
(* Properties of RtpHeader, checked under SpecRtp.                         *)

\* Every field of h is within its declared bit width.
InWidth(h) ==
    /\ h.Version < 4 /\ h.PaddingFlag < 2 /\ h.HeaderExtensionFlag < 2
    /\ h.CSRCCount < 16 /\ h.MarkerBit < 2 /\ h.PayloadType < 128
    /\ h.SeqNum < 65536

\* The receiver has just deserialised, at offset 0, the 12 bytes that
\* Serialise produced from the in-width header sent.
RoundTripCase ==
    /\ op = "Deserialise"
    /\ sent # NoHeader
    /\ pos = 0
    /\ InWidth(sent)

SerialisedByte0 == buf[Len(buf) - RTP_MINIMUM_HEADER_LENGTH + 1]

RtpTruncatedAlwaysRejected ==
    (op = "Deserialise" /\ Len(buf) - pos < RTP_MINIMUM_HEADER_LENGTH)
        => (out.kind = "TruncatedBuffer" /\ reads = {})

---------------------------------------------------------------------------
(* Properties of JpegRtpHeader, checked under SpecJpeg.                    *)

BaseErrorKinds ==
    {"TruncatedBuffer", "UnsupportedTypeSpecifier", "UnsupportedRestartMarkers"}

\* The last call was jpg.Deserialise(buf, pos) with the 8 byte header
\* inside the buffer.
JpegCallInBounds ==
    op = "JpegDeserialise" /\ pos + JPEG_MIN_HEADER_LENGTH <= Len(buf)

\* C4: the validations are applied in the order size, type-specific byte,
\* type byte, and the error raised is that of the first failing check.
JpegValidationOrder ==
    op = "JpegDeserialise" =>
        IF Len(buf) - pos < JPEG_MIN_HEADER_LENGTH
        THEN out.kind = "TruncatedBuffer"
        ELSE IF buf[pos + 1] # 0
        THEN out.kind = "UnsupportedTypeSpecifier"
        ELSE IF buf[pos + 5] \in 64..127
        THEN out.kind = "UnsupportedRestartMarkers"
        ELSE buf[pos + 5] \in 0..63 => out.kind \notin BaseErrorKinds

\* C4 holds of every call whose startPosn lies within the buffer.
JpegValidationOrderInBuffer ==
    pos <= Len(buf) => JpegValidationOrder

\* C5: for a packet that passes the base header validations the extension
\* is parsed if and only if Offset = 0 and Q >= 128; otherwise the call
\* succeeds, reads nothing after the 8 byte header and leaves an empty table.
JpegExtensionIff ==
    (JpegCallInBounds /\ out.kind \notin BaseErrorKinds) =>
        LET inband == jpg.Offset = 0 /\ jpg.Q >= Q_TABLE_INBAND_MINIMUM
            extRead == (pos + JPEG_MIN_HEADER_LENGTH) \in reads
        IN  /\ (out = Returned => (extRead <=> inband))
            /\ (~inband =>
                  /\ out = Returned
                  /\ reads = pos..(pos + JPEG_MIN_HEADER_LENGTH - 1)
                  /\ jpg.QTable = <<>>)

\* C6: with Offset = 0 and Q >= 128, fewer than 4 bytes after the base
\* header give TruncatedQuantizationHeader, fewer than Length bytes after
\* the 12 header bytes give TruncatedQuantizationTable, and otherwise the
\* table payload is exactly the Length bytes at pos + 12 onwards.
JpegExtensionParse ==
    (JpegCallInBounds /\ out.kind \notin BaseErrorKinds
       /\ jpg.Offset = 0 /\ jpg.Q >= Q_TABLE_INBAND_MINIMUM) =>
        IF Len(buf) - pos - JPEG_MIN_HEADER_LENGTH < JPEG_QUANTIZATION_HEADER_LENGTH
        THEN out.kind = "TruncatedQuantizationHeader"
        ELSE LET L == buf[pos + 11] * 256 + buf[pos + 12]
             IN  IF Len(buf) - pos - 12 < L
                 THEN out.kind = "TruncatedQuantizationTable"
                 ELSE /\ out = Returned
                      /\ jpg.QTable = SubSeq(buf, pos + 13, pos + 12 + L)

\* C7: a Deserialise call that raises an error leaves the header object it
\* was called on with every field as it was before the call.  (Stated of
\* the calls whose startPosn lies within the buffer, whose reads are all
\* defined.)
NoPartialOutput ==
    [][/\ (op' = "JpegDeserialise" /\ pos' <= Len(buf') /\ Raised(out')) => jpg' = jpg
       /\ (op' = "Deserialise" /\ pos' <= Len(buf') /\ Raised(out')) => rcv' = rcv]_vars

\* What a caller that catches the exception can inspect: its type and text.
Observable(o) == <<"std::runtime_error", o.what>>

\* C8: the error kinds can be told apart by the caller: no error of
\* another kind presents the caller with what the raised error presents.
ErrorKindsDistinguishable ==
    Raised(out) =>
        \A t \in ThrowSites : Observable(t) = Observable(out) => t.kind = out.kind

\* C9: after a successful Deserialise the object reflects the latest packet
\* only: QTable holds exactly that packet's Length table bytes when it
\* carried an extension, and Mbz, Precision and Length are 0 and QTable is
\* empty when it did not.
NoCrossPacketState ==
    (JpegCallInBounds /\ out = Returned) =>
        IF jpg.Offset = 0 /\ jpg.Q >= Q_TABLE_INBAND_MINIMUM
        THEN /\ Len(jpg.QTable) = jpg.Length
             /\ jpg.QTable = SubSeq(buf, pos + 13, pos + 12 + jpg.Length)
        ELSE /\ jpg.Mbz = 0 /\ jpg.Precision = 0 /\ jpg.Length = 0
             /\ jpg.QTable = <<>>

\* C5, C6 and C9 hold of every call made on a newly constructed object.
JpegNewObjectParse ==
    [][(op' = "JpegDeserialise" /\ jpg \in {JpegHeaderNew(u) : u \in UninitBytes})
          => (JpegExtensionIff' /\ JpegExtensionParse' /\ NoCrossPacketState')]_vars

---------------------------------------------------------------------------
(* Properties of create_default_qtables, checked under SpecQuant.          *)

ClampTo(x, lo, hi) == IF x < lo THEN lo ELSE IF x > hi THEN hi ELSE x

\* C10: with c = q clamped to [1,99] and S = 5000 div c if c < 50, else
\* 200 - 2*c, each of the 128 entries equals
\* clamp((base[i]*S + 50) div 100, 1, 255); quality 50 gives S = 100,
\* quality 1 gives S = 5000, and every entry lies in 1..255.
QuantSynthesis ==
    op = "create_default_qtables" =>
        LET c == ClampTo(quality, 1, 99)
            S == IF c < 50 THEN 5000 \div c ELSE 200 - 2 * c
        IN  /\ scale = S
            /\ Len(qtables) = 128
            /\ \A i \in 1..128 :
                  /\ qtables[i] = ClampTo((default_quantizers[i] * S + 50) \div 100, 1, 255)
                  /\ qtables[i] \in 1..255
            /\ quality = 50 => scale = 100
            /\ quality = 1 => scale = 5000

\* C10, witness: a synthesis in which both clamps of the entries act (at
\* quality 99 the first entry rounds down to 0 and is raised to 1; at
\* quality 1 it exceeds 255).
QuantSynthesisWitness ==
    /\ op = "create_default_qtables"
    /\ quality = 99
    /\ scale = 2
    /\ qtables[1] = 1

---------------------------------------------------------------------------
(* class Huffman: the standard tables (JPEG standard section K.3).  Entry  *)
(* i of a C array is element i + 1 of the sequence.                        *)

avpriv_mjpeg_bits_dc_luminance ==
    <<0, 0, 1, 5, 1, 1, 1, 1, 1, 1, 0, 0,
       0, 0, 0, 0, 0>>

avpriv_mjpeg_val_dc ==
    <<0, 1, 2, 3, 4, 5, 6, 7, 8, 9, 10, 11>>

avpriv_mjpeg_bits_dc_chrominance ==
    <<0, 0, 3, 1, 1, 1, 1, 1, 1, 1, 1, 1,
       0, 0, 0, 0, 0>>

avpriv_mjpeg_bits_ac_luminance ==
    <<0, 0, 2, 1, 3, 3, 2, 4, 3, 5, 5, 4,
       4, 0, 0, 1, 125>>

avpriv_mjpeg_val_ac_luminance ==
    <<1, 2, 3, 0, 4, 17, 5, 18, 33, 49, 65, 6,
       19, 81, 97, 7, 34, 113, 20, 50, 129, 145, 161, 8,
       35, 66, 177, 193, 21, 82, 209, 240, 36, 51, 98, 114,
       130, 9, 10, 22, 23, 24, 25, 26, 37, 38, 39, 40,
       41, 42, 52, 53, 54, 55, 56, 57, 58, 67, 68, 69,
       70, 71, 72, 73, 74, 83, 84, 85, 86, 87, 88, 89,
       90, 99, 100, 101, 102, 103, 104, 105, 106, 115, 116, 117,
       118, 119, 120, 121, 122, 131, 132, 133, 134, 135, 136, 137,
       138, 146, 147, 148, 149, 150, 151, 152, 153, 154, 162, 163,
       164, 165, 166, 167, 168, 169, 170, 178, 179, 180, 181, 182,
       183, 184, 185, 186, 194, 195, 196, 197, 198, 199, 200, 201,
       202, 210, 211, 212, 213, 214, 215, 216, 217, 218, 225, 226,
       227, 228, 229, 230, 231, 232, 233, 234, 241, 242, 243, 244,
       245, 246, 247, 248, 249, 250>>

avpriv_mjpeg_bits_ac_chrominance ==
    <<0, 0, 2, 1, 2, 4, 4, 3, 4, 7, 5, 4,
       4, 0, 1, 2, 119>>

avpriv_mjpeg_val_ac_chrominance ==
    <<0, 1, 2, 3, 17, 4, 5, 33, 49, 6, 18, 65,
       81, 7, 97, 113, 19, 34, 50, 129, 8, 20, 66, 145,
       161, 177, 193, 9, 35, 51, 82, 240, 21, 98, 114, 209,
       10, 22, 36, 52, 225, 37, 241, 23, 24, 25, 26, 38,
       39, 40, 41, 42, 53, 54, 55, 56, 57, 58, 67, 68,
       69, 70, 71, 72, 73, 74, 83, 84, 85, 86, 87, 88,
       89, 90, 99, 100, 101, 102, 103, 104, 105, 106, 115, 116,
       117, 118, 119, 120, 121, 122, 130, 131, 132, 133, 134, 135,
       136, 137, 138, 146, 147, 148, 149, 150, 151, 152, 153, 154,
       162, 163, 164, 165, 166, 167, 168, 169, 170, 178, 179, 180,
       181, 182, 183, 184, 185, 186, 194, 195, 196, 197, 198, 199,
       200, 201, 202, 210, 211, 212, 213, 214, 215, 216, 217, 218,
       226, 227, 228, 229, 230, 231, 232, 233, 234, 242, 243, 244,
       245, 246, 247, 248, 249, 250>>

---------------------------------------------------------------------------
(* Huffman::ff_mjpeg_build_huffman_codes.  The locals of the function are  *)
(* a record [huff_size, huff_code, k, code]; huff_size and huff_code are   *)
(* the caller's arrays, indexed by the symbol (a uint8_t): 256 entries.    *)

\* Small tables use the code lengths 1..HuffMaxLen only.
HuffMaxLen == 3
\* Small tables list at most HuffMaxSyms symbols.
HuffMaxSyms == 4
\* The symbols of the small tables.
HuffSyms == {0, 1, 2}

\* bits_table[1] + ... + bits_table[i]: the symbols of length at most i.
RECURSIVE BitsSum(_, _)
BitsSum(bits_table, i) ==
    IF i = 0 THEN 0 ELSE bits_table[i + 1] + BitsSum(bits_table, i - 1)

\* The body of the inner loop up to the increment: a symbol other than 0
\* is recorded on every occurrence, symbol 0 only while its size is 0.
\* Storing the int code in a uint16_t keeps its low 16 bits.
HuffAssignEveryOccurrence(st, sym, i) ==
    [st EXCEPT !.huff_size[sym + 1] = i, !.huff_code[sym + 1] = st.code % 65536]

HuffAssign(st, sym, i) ==
    IF sym # 0 \/ st.huff_size[sym + 1] = 0
    THEN [st EXCEPT !.huff_size[sym + 1] = i, !.huff_code[sym + 1] = st.code % 65536]
    ELSE st

\* One round of the inner loop: every symbol, recorded or not, takes one
\* code.
HuffRound(st, val_table, i) ==
    LET sym == val_table[st.k + 1]
        a == HuffAssign(st, sym, i)
    IN [a EXCEPT !.k = @ + 1, !.code = @ + 1]

\* for (j = 0; j < nb; j++): nb rounds, the first half of them and then
\* the rest.  A round entered with k at the end of the value list would
\* read val_table out of bounds; the tables of the model list exactly
\* BitsSum(bits_table, 16) symbols, so that no round is entered there.
RECURSIVE HuffSymbols(_, _, _, _)
HuffSymbols(st, val_table, i, nb) ==
    IF nb = 0 \/ st.k >= Len(val_table) THEN st
    ELSE IF nb = 1 THEN HuffRound(st, val_table, i)
    ELSE HuffSymbols(HuffSymbols(st, val_table, i, nb \div 2),
                     val_table, i, nb - nb \div 2)

\* code <<= 1 at the end of each length.
HuffNextLengthUnshifted(st) == st

HuffNextLength(st) == [st EXCEPT !.code = @ * 2]

\* for (i = 1; i <= 16; i++)
RECURSIVE HuffLengths(_, _, _, _)
HuffLengths(st, bits_table, val_table, i) ==
    IF i > 16 THEN st
    ELSE HuffLengths(
             HuffNextLength(HuffSymbols(st, val_table, i, bits_table[i + 1])),
             bits_table, val_table, i + 1)

ff_mjpeg_build_huffman_codes(huff_size, huff_code, bits_table, val_table) ==
    LET st == HuffLengths([huff_size |-> [huff_size EXCEPT ![1] = 0],
                           huff_code |-> huff_code, k |-> 0, code |-> 0],
                          bits_table, val_table, 1)
    IN [huff_size |-> st.huff_size, huff_code |-> st.huff_code]

\* The arrays the caller passes are not initialised by the function, apart
\* from huff_size[0]: every entry holds the same leftover byte u.
HuffArray(u) ==
    LET a4 == <<u, u, u, u>>
        a16 == a4 \o a4 \o a4 \o a4
        a64 == a16 \o a16 \o a16 \o a16
    IN a64 \o a64 \o a64 \o a64

\* Small tables: bits_table[i] symbols of each length i in 1..HuffMaxLen,
\* none of a greater length, and a value list of exactly that many symbols.
HuffCounts ==
    {c \in [1..HuffMaxLen -> 0..HuffMaxSyms] :
        BitsSum(<<0>> \o c, HuffMaxLen) <= HuffMaxSyms}

HuffBits(c) == [i \in 1..17 |-> IF 2 <= i /\ i <= HuffMaxLen + 1 THEN c[i - 1] ELSE 0]

HuffSmallTables ==
    UNION {{[name |-> "small", bits_table |-> HuffBits(c), val_table |-> v] :
               v \in [1..BitsSum(HuffBits(c), 16) -> HuffSyms]} : c \in HuffCounts}

HuffStandardTables ==
    {[name |-> "dc_luminance", bits_table |-> avpriv_mjpeg_bits_dc_luminance,
      val_table |-> avpriv_mjpeg_val_dc],
     [name |-> "dc_chrominance", bits_table |-> avpriv_mjpeg_bits_dc_chrominance,
      val_table |-> avpriv_mjpeg_val_dc],
     [name |-> "ac_luminance", bits_table |-> avpriv_mjpeg_bits_ac_luminance,
      val_table |-> avpriv_mjpeg_val_ac_luminance],
     [name |-> "ac_chrominance", bits_table |-> avpriv_mjpeg_bits_ac_chrominance,
      val_table |-> avpriv_mjpeg_val_ac_chrominance]}

InitHuff ==
    /\ rtp = RtpHeaderNew
    /\ rcv = RtpHeaderNew
    /\ sent = NoHeader
    /\ jpg = JpegHeaderNew(0)
    /\ buf = <<>>
    /\ pos = 0
    /\ out = Returned
    /\ op = "new"
    /\ reads = {}
    /\ quality = 0
    /\ scale = 0
    /\ qtables = <<>>
    /\ jfif = JfifIdle
    /\ \E t \in HuffSmallTables \cup HuffStandardTables, u \in UninitBytes :
           huff = [name |-> t.name, bits_table |-> t.bits_table,
                   val_table |-> t.val_table, huff_size |-> HuffArray(u),
                   huff_code |-> HuffArray(u), called |-> FALSE]

BuildHuffmanCodes ==
    /\ ~huff.called
    /\ LET r == ff_mjpeg_build_huffman_codes(huff.huff_size, huff.huff_code,
                                             huff.bits_table, huff.val_table)
       IN huff' = [huff EXCEPT !.huff_size = r.huff_size,
                               !.huff_code = r.huff_code, !.called = TRUE]
    /\ op' = "ff_mjpeg_build_huffman_codes"
    /\ UNCHANGED <<rtp, rcv, sent, jpg, buf, pos, out, reads, quality, scale,
                   qtables, jfif>>

NextHuff == BuildHuffmanCodes

SpecHuff == InitHuff /\ [][NextHuff]_vars

---------------------------------------------------------------------------
(* Properties of ff_mjpeg_build_huffman_codes, checked under SpecHuff.     *)

\* The canonical code of the k-th symbol of the value list (k from 1): its
\* length is the length l whose group of bits_table[l] symbols holds
\* position k.  The first code of length 1 is 0; the first code of length
\* l + 1 is the first code after those of length l, with a zero bit added;
\* the codes of one length are consecutive.
PosLen(bits_table, k) ==
    CHOOSE l \in 1..16 : BitsSum(bits_table, l - 1) < k /\ k <= BitsSum(bits_table, l)

RECURSIVE FirstCode(_, _)
FirstCode(bits_table, l) ==
    IF l = 1 THEN 0 ELSE 2 * (FirstCode(bits_table, l - 1) + bits_table[l])

PosCode(bits_table, k) ==
    LET l == PosLen(bits_table, k)
    IN FirstCode(bits_table, l) + (k - 1 - BitsSum(bits_table, l - 1))

PositionsOf(sym) == {k \in 1..Len(huff.val_table) : huff.val_table[k] = sym}

FirstOf(sym) == CHOOSE k \in PositionsOf(sym) : \A m \in PositionsOf(sym) : k <= m

LastOf(sym) == CHOOSE k \in PositionsOf(sym) : \A m \in PositionsOf(sym) : m <= k

ListedSymbols == {huff.val_table[k] : k \in 1..Len(huff.val_table)}

\* C11: when symbol 0 is listed at two or more positions of the value
\* list, the size and the code recorded for symbol 0 are those of its first
\* position, and every other listed symbol has the canonical code of its
\* own position, counted with every occurrence of symbol 0 taking one code.
DuplicateZeroKeepsFirst ==
    (huff.called /\ Cardinality(PositionsOf(0)) >= 2) =>
        /\ huff.huff_size[1] = PosLen(huff.bits_table, FirstOf(0))
        /\ huff.huff_code[1] = PosCode(huff.bits_table, FirstOf(0)) % 65536
        /\ \A sym \in ListedSymbols \ {0} :
               /\ huff.huff_size[sym + 1] = PosLen(huff.bits_table, LastOf(sym))
               /\ huff.huff_code[sym + 1]
                      = PosCode(huff.bits_table, LastOf(sym)) % 65536

\* Symbol 0 is listed twice with different lengths, a symbol follows the
\* second occurrence, and symbol 0 has the length of its first occurrence.
DuplicateZeroWitness ==
    /\ huff.called
    /\ Cardinality(PositionsOf(0)) >= 2
    /\ PosLen(huff.bits_table, FirstOf(0)) # PosLen(huff.bits_table, LastOf(0))
    /\ huff.huff_size[1] = PosLen(huff.bits_table, FirstOf(0))
    /\ \E sym \in ListedSymbols \ {0} : LastOf(sym) > LastOf(0)

\* The code c1 of l1 bits is a prefix of the code c2 of l2 bits.
IsPrefix(c1, l1, c2, l2) == l1 <= l2 /\ c2 \div 2^(l2 - l1) = c1

StandardNames == {"dc_luminance", "dc_chrominance", "ac_luminance", "ac_chrominance"}

\* C17: for a table that lists every symbol once, the symbol at position k
\* has the length of the group that holds k and the canonical code of k
\* (consecutive within a length, doubled from one length to the next); for
\* each of the four standard tables every listed symbol has a code below
\* 2^length, and no listed symbol's code is a prefix of another's.
CanonicalPrefixFree ==
    huff.called =>
        /\ (\A sym \in ListedSymbols : Cardinality(PositionsOf(sym)) = 1) =>
               \A k \in 1..Len(huff.val_table) :
                   /\ huff.huff_size[huff.val_table[k] + 1] = PosLen(huff.bits_table, k)
                   /\ huff.huff_code[huff.val_table[k] + 1]
                          = PosCode(huff.bits_table, k) % 65536
        /\ huff.name \in StandardNames =>
               /\ \A sym \in ListedSymbols :
                      /\ huff.huff_size[sym + 1] \in 1..16
                      /\ huff.huff_code[sym + 1] < 2^huff.huff_size[sym + 1]
               /\ \A s \in ListedSymbols, t \in ListedSymbols :
                      s # t => ~IsPrefix(huff.huff_code[s + 1], huff.huff_size[s + 1],
                                         huff.huff_code[t + 1], huff.huff_size[t + 1])

\* The AC luminance table is built: its last symbol 0xfa has the 16-bit
\* code 1111111111111110 and its first symbol 0x01 the 2-bit code 00.
CanonicalWitness ==
    /\ huff.called
    /\ huff.name = "ac_luminance"
    /\ huff.huff_size[251] = 16
    /\ huff.huff_code[251] = 65534
    /\ huff.huff_size[2] = 2
    /\ huff.huff_code[2] = 0

---------------------------------------------------------------------------
(* The byte writer of jpeg_create_header.  A PutByteContext is a record    *)
(* [buffer, marks]: buffer holds the bytes written so far, byte i of the   *)
(* output (0-based) being buffer[i + 1]; marks lists, for every            *)
(* jpeg_put_marker call, the marker code and the offset of its 0xff byte.  *)
(* The output buffer is taken to have room for every byte of the header.   *)

bytestream2_init_writer == [buffer |-> <<>>, marks |-> <<>>]

bytestream2_put_byte(p, b) == [p EXCEPT !.buffer = Append(@, b % 256)]

bytestream2_put_be16(p, v) ==
    [p EXCEPT !.buffer = @ \o <<(v \div 256) % 256, v % 256>>]

bytestream2_put_buffer(p, src, n) == [p EXCEPT !.buffer = @ \o SubSeq(src, 1, n)]

bytestream2_tell_p(p) == Len(p.buffer)

\* AV_WB16(ptr, v): the two bytes at offset ptr become v, big-endian.
AV_WB16(p, ptr, v) ==
    [p EXCEPT !.buffer[ptr + 1] = (v \div 256) % 256, !.buffer[ptr + 2] = v % 256]

---------------------------------------------------------------------------
(* enum JpegMarker: the codes jpeg_create_header writes.                   *)

SOF0 == 192
DHT == 196
SOI == 216
SOS == 218
DQT == 219
DRI == 221
APP0 == 224

---------------------------------------------------------------------------
(* Jfif::jpeg_create_huffman_table, jpeg_put_marker, jpeg_create_header.   *)

\* The class/id byte, the 16 counts bits_table[1..16], then the first n
\* entries of value_table, n being the sum of the counts.  The result is
\* the writer and the returned n + 17.
jpeg_create_huffman_table_short(p, table_class, table_id, bits_table, value_table) ==
    LET n == BitsSum(bits_table, 16)
        p1 == bytestream2_put_byte(p, BitOr(Shl(table_class, 4), table_id))
        p2 == bytestream2_put_buffer(p1, SubSeq(bits_table, 2, 17), 16)
        p3 == bytestream2_put_buffer(p2, value_table, n)
    IN [p |-> p3, ret |-> n + 16]

jpeg_create_huffman_table(p, table_class, table_id, bits_table, value_table) ==
    LET n == BitsSum(bits_table, 16)
        p1 == bytestream2_put_byte(p, BitOr(Shl(table_class, 4), table_id))
        p2 == bytestream2_put_buffer(p1, SubSeq(bits_table, 2, 17), 16)
        p3 == bytestream2_put_buffer(p2, value_table, n)
    IN [p |-> p3, ret |-> n + 17]

jpeg_put_marker(pbc, code) ==
    LET logged == [pbc EXCEPT !.marks = Append(@, [code |-> code, at |-> Len(pbc.buffer)])]
    IN bytestream2_put_byte(bytestream2_put_byte(logged, 255), code)

\* JFIF header (APP0).  "JFIF" with its terminating zero is five bytes.
JfifApp0(pbc) ==
    LET p1 == jpeg_put_marker(pbc, APP0)
        p2 == bytestream2_put_be16(p1, 16)
        p3 == bytestream2_put_buffer(p2, <<74, 70, 73, 70, 0>>, 5)
        p4 == bytestream2_put_be16(p3, 513)
        p5 == bytestream2_put_byte(p4, 0)
        p6 == bytestream2_put_be16(p5, 1)
        p7 == bytestream2_put_be16(p6, 1)
        p8 == bytestream2_put_byte(p7, 0)
    IN bytestream2_put_byte(p8, 0)

\* if (dri) { ... }
JfifDriAlways(pbc, dri) ==
    bytestream2_put_be16(bytestream2_put_be16(jpeg_put_marker(pbc, DRI), 4), dri)

JfifDri(pbc, dri) ==
    IF dri # 0
    THEN bytestream2_put_be16(bytestream2_put_be16(jpeg_put_marker(pbc, DRI), 4), dri)
    ELSE pbc

\* for (i = 0; i < nb_qtable; i++): the id byte i and the 64 bytes at
\* qtable + 64 * i.
RECURSIVE JfifDqtTablesSameId(_, _, _, _)
JfifDqtTablesSameId(pbc, qtable, nb_qtable, i) ==
    IF i >= nb_qtable THEN pbc
    ELSE JfifDqtTablesSameId(
             bytestream2_put_buffer(bytestream2_put_byte(pbc, 0),
                                    SubSeq(qtable, 64 * i + 1, 64 * i + 64), 64),
             qtable, nb_qtable, i + 1)

RECURSIVE JfifDqtTables(_, _, _, _)
JfifDqtTables(pbc, qtable, nb_qtable, i) ==
    IF i >= nb_qtable THEN pbc
    ELSE JfifDqtTables(
             bytestream2_put_buffer(bytestream2_put_byte(pbc, i),
                                    SubSeq(qtable, 64 * i + 1, 64 * i + 64), 64),
             qtable, nb_qtable, i + 1)

JfifDqt(pbc, qtable, nb_qtable) ==
    LET p1 == jpeg_put_marker(pbc, DQT)
        p2 == bytestream2_put_be16(p1, 2 + nb_qtable * (1 + 64))
    IN JfifDqtTables(p2, qtable, nb_qtable, 0)

\* DHT: the length is written as 0 and patched once the four tables are
\* written.  The result is the writer and dht_size.
JfifDht(pbc) ==
    LET p1 == jpeg_put_marker(pbc, DHT)
        dht_size_ptr == Len(p1.buffer)
        p2 == bytestream2_put_be16(p1, 0)
        t1 == jpeg_create_huffman_table(p2, 0, 0, avpriv_mjpeg_bits_dc_luminance,
                                        avpriv_mjpeg_val_dc)
        t2 == jpeg_create_huffman_table(t1.p, 0, 1, avpriv_mjpeg_bits_dc_chrominance,
                                        avpriv_mjpeg_val_dc)
        t3 == jpeg_create_huffman_table(t2.p, 1, 0, avpriv_mjpeg_bits_ac_luminance,
                                        avpriv_mjpeg_val_ac_luminance)
        t4 == jpeg_create_huffman_table(t3.p, 1, 1, avpriv_mjpeg_bits_ac_chrominance,
                                        avpriv_mjpeg_val_ac_chrominance)
        dht_size == 2 + t1.ret + t2.ret + t3.ret + t4.ret
    IN [p |-> AV_WB16(t4.p, dht_size_ptr, dht_size), dht_size |-> dht_size]

\* SOF0; w and h are in pixels here.
JfifSof0WidthFirst(pbc, type, w, h, nb_qtable) ==
    LET p1 == jpeg_put_marker(pbc, SOF0)
        p2 == bytestream2_put_be16(p1, 17)
        p3 == bytestream2_put_byte(p2, 8)
        p4 == bytestream2_put_be16(p3, w)
        p5 == bytestream2_put_be16(p4, h)
        p6 == bytestream2_put_byte(p5, 3)
        comps == <<1, BitOr(Shl(2, 4), IF type # 0 THEN 2 ELSE 1), 0,
                   2, BitOr(Shl(1, 4), 1), IF nb_qtable = 2 THEN 1 ELSE 0,
                   3, BitOr(Shl(1, 4), 1), IF nb_qtable = 2 THEN 1 ELSE 0>>
    IN bytestream2_put_buffer(p6, comps, 9)

JfifSof0(pbc, type, w, h, nb_qtable) ==
    LET p1 == jpeg_put_marker(pbc, SOF0)
        p2 == bytestream2_put_be16(p1, 17)
        p3 == bytestream2_put_byte(p2, 8)
        p4 == bytestream2_put_be16(p3, h)
        p5 == bytestream2_put_be16(p4, w)
        p6 == bytestream2_put_byte(p5, 3)
        comps == <<1, BitOr(Shl(2, 4), IF type # 0 THEN 2 ELSE 1), 0,
                   2, BitOr(Shl(1, 4), 1), IF nb_qtable = 2 THEN 1 ELSE 0,
                   3, BitOr(Shl(1, 4), 1), IF nb_qtable = 2 THEN 1 ELSE 0>>
    IN bytestream2_put_buffer(p6, comps, 9)

\* SOS
JfifSosLength14(pbc) ==
    bytestream2_put_buffer(bytestream2_put_be16(jpeg_put_marker(pbc, SOS), 14),
                           <<3, 1, 0, 2, 17, 3, 17, 0, 63, 0>>, 10)

JfifSos(pbc) ==
    bytestream2_put_buffer(bytestream2_put_be16(jpeg_put_marker(pbc, SOS), 12),
                           <<3, 1, 0, 2, 17, 3, 17, 0, 63, 0>>, 10)

\* w and h arrive in blocks of 8 pixels; w <<= 3 and h <<= 3 are uint32_t
\* shifts, which do not wrap for the dimensions of the model.
jpeg_create_header(type, w, h, qtable, nb_qtable, dri) ==
    LET pw == Shl(w, 3)
        ph == Shl(h, 3)
        p1 == jpeg_put_marker(bytestream2_init_writer, SOI)
        p2 == JfifApp0(p1)
        p3 == JfifDri(p2, dri)
        p4 == JfifDqt(p3, qtable, nb_qtable)
        d == JfifDht(p4)
        p6 == JfifSof0(d.p, type, pw, ph, nb_qtable)
        p7 == JfifSos(p6)
    IN [buffer |-> p7.buffer, marks |-> p7.marks, dht_size |-> d.dht_size,
        ret |-> bytestream2_tell_p(p7)]

\* The arguments of the model: dimensions in blocks as the uint8_t Width
\* and Height fields of a JpegRtpHeader give them, one or two tables of 64
\* bytes, a restart interval of 16 bits.
JfifDims == {0, 1, 32, 60, 80, 255}
JfifTypes == {0, 1, 63}
JfifRestartIntervals == {0, 1, 4660, 65535}
JfifQTables == {create_default_qtables(q).qtables : q \in {1, 50, 99}}

InitJfif ==
    /\ rtp = RtpHeaderNew
    /\ rcv = RtpHeaderNew
    /\ sent = NoHeader
    /\ jpg = JpegHeaderNew(0)
    /\ buf = <<>>
    /\ pos = 0
    /\ out = Returned
    /\ op = "new"
    /\ reads = {}
    /\ quality = 0
    /\ scale = 0
    /\ qtables = <<>>
    /\ huff = HuffIdle
    /\ \E type \in JfifTypes, w \in JfifDims, h \in JfifDims, n \in {1, 2},
          q \in JfifQTables, dri \in JfifRestartIntervals :
           jfif = [JfifIdle EXCEPT !.pc = "call", !.type = type, !.w = w, !.h = h,
                                   !.qtable = SubSeq(q, 1, 64 * n),
                                   !.nb_qtable = n, !.dri = dri]

JpegCreateHeader ==
    /\ jfif.pc = "call"
    /\ LET r == jpeg_create_header(jfif.type, jfif.w, jfif.h, jfif.qtable,
                                   jfif.nb_qtable, jfif.dri)
       IN jfif' = [jfif EXCEPT !.pc = "returned", !.buffer = r.buffer,
                               !.marks = r.marks, !.dht_size = r.dht_size,
                               !.ret = r.ret]
    /\ op' = "jpeg_create_header"
    /\ UNCHANGED <<rtp, rcv, sent, jpg, buf, pos, out, reads, quality, scale,
                   qtables, huff>>

NextJfif == JpegCreateHeader

SpecJfif == InitJfif /\ [][NextJfif]_vars

---------------------------------------------------------------------------
(* Properties of jpeg_create_header, checked under SpecJfif.               *)

\* The 16-bit big-endian value at offset i of the output.
Be16At(i) == jfif.buffer[i + 1] * 256 + jfif.buffer[i + 2]

\* The bytes at the offsets i .. i + n - 1 of the output.
BytesAt(i, n) == SubSeq(jfif.buffer, i + 1, i + n)

MarkCodes == [k \in 1..Len(jfif.marks) |-> jfif.marks[k].code]

\* The offset of the marker with the given code, and the offset at which
\* the segment of the k-th marker ends: the next marker, or the end.
MarkAt(code) == (CHOOSE k \in 1..Len(jfif.marks) : jfif.marks[k].code = code)

SegmentAt(code) == jfif.marks[MarkAt(code)].at

SegmentEnd(k) ==
    IF k < Len(jfif.marks) THEN jfif.marks[k + 1].at ELSE Len(jfif.buffer)

\* C12: the markers are written in the order SOI, APP0, DRI, DQT, DHT,
\* SOF0, SOS, with DRI there exactly when the restart interval is above 0,
\* as 0xff and the code at the recorded offsets; the DRI segment is the
\* length 4 and the 16-bit interval; the output begins 0xff 0xd8 and ends
\* with the 14 bytes of the SOS segment.
SegmentOrder ==
    jfif.pc = "returned" =>
        /\ MarkCodes = (IF jfif.dri > 0
                        THEN <<SOI, APP0, DRI, DQT, DHT, SOF0, SOS>>
                        ELSE <<SOI, APP0, DQT, DHT, SOF0, SOS>>)
        /\ \A k \in 1..Len(jfif.marks) :
               /\ BytesAt(jfif.marks[k].at, 2) = <<255, jfif.marks[k].code>>
               /\ k < Len(jfif.marks) => jfif.marks[k].at < jfif.marks[k + 1].at
        /\ jfif.dri > 0 =>
               /\ BytesAt(SegmentAt(DRI) + 2, 2) = <<0, 4>>
               /\ Be16At(SegmentAt(DRI) + 4) = jfif.dri
               /\ SegmentEnd(MarkAt(DRI)) = SegmentAt(DRI) + 6
        /\ BytesAt(0, 2) = <<255, 216>>
        /\ SegmentAt(SOS) = Len(jfif.buffer) - 14
        /\ BytesAt(Len(jfif.buffer) - 14, 14)
               = <<255, 218, 0, 12, 3, 1, 0, 2, 17, 3, 17, 0, 63, 0>>

\* A header with a restart interval is built: DRI stands between APP0 and
\* DQT.
SegmentOrderWitness ==
    /\ jfif.pc = "returned"
    /\ jfif.dri = 4660
    /\ jfif.nb_qtable = 2
    /\ MarkCodes[3] = DRI
    /\ BytesAt(20, 6) = <<255, 221, 0, 4, 18, 52>>

\* C13: for widths and heights of 0..255 blocks and every type, the SOF0
\* segment is the length 17, the precision 8, the height 8 * h and the
\* width 8 * w as 16-bit big-endian values, 3 components: component 1 with
\* the sampling byte 0x22 for a type other than 0 and 0x21 for type 0 and
\* table 0, components 2 and 3 with the sampling byte 0x11 and table 1
\* when two tables were given, table 0 otherwise.
Sof0Fields ==
    (jfif.pc = "returned" /\ jfif.w \in 0..255 /\ jfif.h \in 0..255) =>
        LET a == SegmentAt(SOF0)
            sampling == 32 + (IF jfif.type # 0 THEN 2 ELSE 1)
            index == IF jfif.nb_qtable = 2 THEN 1 ELSE 0
        IN /\ BytesAt(a, 4) = <<255, 192, 0, 17>>
           /\ jfif.buffer[a + 5] = 8
           /\ Be16At(a + 5) = 8 * jfif.h
           /\ Be16At(a + 7) = 8 * jfif.w
           /\ jfif.buffer[a + 10] = 3
           /\ BytesAt(a + 10, 9) = <<1, sampling, 0, 2, 17, index, 3, 17, index>>

\* 80 by 60 blocks with type 1 and two tables: 640 is 0x0280, 480 is
\* 0x01e0, and the height comes first.
Sof0Witness ==
    /\ jfif.pc = "returned"
    /\ jfif.w = 80
    /\ jfif.h = 60
    /\ jfif.type = 1
    /\ jfif.nb_qtable = 2
    /\ BytesAt(SegmentAt(SOF0) + 5, 4) = <<1, 224, 2, 128>>
    /\ BytesAt(SegmentAt(SOF0) + 10, 9) = <<1, 34, 0, 2, 17, 1, 3, 17, 1>>

\* C14: the DQT segment holds, for one table, the id byte 0 and the 64
\* bytes given; for two tables, the id byte 0 and the first 64 bytes, then
\* the id byte 1 and the next 64 bytes; its length field is 2 + 65 * n,
\* 67 or 132, and the segment ends after the last table.
DqtTables ==
    jfif.pc = "returned" =>
        LET a == SegmentAt(DQT)
        IN /\ BytesAt(a, 2) = <<255, 219>>
           /\ Be16At(a + 2) = 2 + 65 * jfif.nb_qtable
           /\ Be16At(a + 2) = (IF jfif.nb_qtable = 1 THEN 67 ELSE 132)
           /\ SegmentEnd(MarkAt(DQT)) = a + 4 + 65 * jfif.nb_qtable
           /\ jfif.nb_qtable = 1 =>
                  BytesAt(a + 4, 65) = <<0>> \o jfif.qtable
           /\ jfif.nb_qtable = 2 =>
                  BytesAt(a + 4, 130) = <<0>> \o SubSeq(jfif.qtable, 1, 64)
                                        \o <<1>> \o SubSeq(jfif.qtable, 65, 128)

\* Two tables of quality 50: the luma table begins 16, 11 under the id 0,
\* the chroma table begins 17, 18 under the id 1.
DqtWitness ==
    /\ jfif.pc = "returned"
    /\ jfif.nb_qtable = 2
    /\ BytesAt(SegmentAt(DQT) + 2, 5) = <<0, 132, 0, 16, 11>>
    /\ BytesAt(SegmentAt(DQT) + 69, 3) = <<1, 17, 18>>

\* The bytes of one table of the DHT segment.
DhtTable(table_class, table_id, bits_table, value_table) ==
    <<16 * table_class + table_id>> \o SubSeq(bits_table, 2, 17) \o value_table

\* C15: the DHT segment holds the four standard tables in the order DC
\* luminance (class 0, id 0), DC chrominance (0, 1), AC luminance (1, 0),
\* AC chrominance (1, 1), each as its class/id byte, its 16 counts and as
\* many symbols as the counts add up to; the counts add up to the lengths
\* of the value lists, 12, 12, 162 and 162; the length field is 418.
DhtTables ==
    jfif.pc = "returned" =>
        LET a == SegmentAt(DHT)
        IN /\ BytesAt(a, 2) = <<255, 196>>
           /\ Be16At(a + 2) = 418
           /\ jfif.dht_size = 418
           /\ SegmentEnd(MarkAt(DHT)) = a + 2 + 418
           /\ BitsSum(avpriv_mjpeg_bits_dc_luminance, 16) = 12
           /\ BitsSum(avpriv_mjpeg_bits_dc_chrominance, 16) = 12
           /\ BitsSum(avpriv_mjpeg_bits_ac_luminance, 16) = 162
           /\ BitsSum(avpriv_mjpeg_bits_ac_chrominance, 16) = 162
           /\ Len(avpriv_mjpeg_val_dc) = 12
           /\ Len(avpriv_mjpeg_val_ac_luminance) = 162
           /\ Len(avpriv_mjpeg_val_ac_chrominance) = 162
           /\ BytesAt(a + 4, 29)
                  = DhtTable(0, 0, avpriv_mjpeg_bits_dc_luminance, avpriv_mjpeg_val_dc)
           /\ BytesAt(a + 33, 29)
                  = DhtTable(0, 1, avpriv_mjpeg_bits_dc_chrominance, avpriv_mjpeg_val_dc)
           /\ BytesAt(a + 62, 179)
                  = DhtTable(1, 0, avpriv_mjpeg_bits_ac_luminance,
                             avpriv_mjpeg_val_ac_luminance)
           /\ BytesAt(a + 241, 179)
                  = DhtTable(1, 1, avpriv_mjpeg_bits_ac_chrominance,
                             avpriv_mjpeg_val_ac_chrominance)

\* The length 418 is 0x01a2; the class/id bytes 0x00, 0x01, 0x10 and 0x11
\* stand at the head of the four tables, and the last symbol is 0xfa.
DhtWitness ==
    /\ jfif.pc = "returned"
    /\ jfif.dri = 0
    /\ jfif.nb_qtable = 1
    /\ BytesAt(SegmentAt(DHT) + 2, 3) = <<1, 162, 0>>
    /\ jfif.buffer[SegmentAt(DHT) + 33 + 1] = 1
    /\ jfif.buffer[SegmentAt(DHT) + 62 + 1] = 16
    /\ jfif.buffer[SegmentAt(DHT) + 241 + 1] = 17
    /\ jfif.buffer[SegmentAt(DHT) + 420] = 250

\* C16: the APP0 segment has the length field 16, the identifier "JFIF"
\* with a zero byte, the major version byte 1 followed by the minor
\* version byte 2, and the thumbnail width and height 0.
App0Version12 ==
    jfif.pc = "returned" =>
        LET a == SegmentAt(APP0)
        IN /\ BytesAt(a, 4) = <<255, 224, 0, 16>>
           /\ BytesAt(a + 4, 5) = <<74, 70, 73, 70, 0>>
           /\ BytesAt(a + 9, 2) = <<1, 2>>
           /\ BytesAt(a + 16, 2) = <<0, 0>>
           /\ SegmentEnd(MarkAt(APP0)) = a + 18

\* C18: in a header built with 1 or 2 tables, the length field of each
\* segment is the number of bytes from that field to the next marker, or
\* to the end for SOS: 16 for APP0, 4 for DRI, 2 + 65 * n for DQT, 418 for
\* DHT, 17 for SOF0, 12 for SOS; the returned count is the number of bytes
\* written, 542 with one table and 607 with two, and 6 more with DRI.
SegmentLength(code) ==
    CASE code = APP0 -> 16
      [] code = DRI -> 4
      [] code = DQT -> 2 + 65 * jfif.nb_qtable
      [] code = DHT -> 418
      [] code = SOF0 -> 17
      [] code = SOS -> 12

SegmentsWellFormed ==
    (jfif.pc = "returned" /\ jfif.nb_qtable \in {1, 2}) =>
        /\ \A k \in 2..Len(jfif.marks) :
               /\ Be16At(jfif.marks[k].at + 2) = SegmentEnd(k) - (jfif.marks[k].at + 2)
               /\ Be16At(jfif.marks[k].at + 2) = SegmentLength(jfif.marks[k].code)
        /\ jfif.marks[2].at = 2
        /\ jfif.ret = Len(jfif.buffer)
        /\ jfif.ret = (IF jfif.nb_qtable = 1 THEN 542 ELSE 607)
                          + (IF Len(jfif.marks) = 7 THEN 6 ELSE 0)

\* The four totals: 542 and 607 without DRI, 548 and 613 with it.
SegmentsWitness ==
    /\ jfif.pc = "returned"
    /\ jfif.nb_qtable = 2
    /\ jfif.dri = 65535
    /\ jfif.ret = 613
    /\ Be16At(jfif.marks[3].at + 2) = 4
    /\ jfif.marks[7].at = 599

===========================================================================
